---- MODULE Spec2Model ----
(***************************************************************************)
(* Aqua Forum: the asynchronous image-tagging pipeline.                    *)
(*                                                                         *)
(*   backend/routes/photos.js        POST /upload, PUT /:photoId           *)
(*   backend/utils/vision-queue.js   Bull queue "vision-processing" and    *)
(*                                   its processor                         *)
(*   backend/utils/vision-service.js generateTags, parseTagsFromResponse   *)
(*   backend/routes/albums.js        tag create / update routes            *)
(*   backend/models/Notification.js  tagSchema (second half of the file)   *)
(*                                                                         *)
(* Strings are sequences of one-character strings, so that toLowerCase,    *)
(* trim and length are computed and not assumed.  Confidences are in       *)
(* tenths (0.5 is 5).                                                      *)
(***************************************************************************)
EXTENDS Integers, Sequences, FiniteSets, TLC

(***************************************************************************)
(* Bounds of the model.                                                    *)
(***************************************************************************)
\* photos that can be uploaded in one behaviour
NumPhotos == 1
\* cap of a usageCount in the Tag Usage Index
MaxUsage == 3
\* longest tag list of the merge under check alone
MaxMergeLen == 2

(***************************************************************************)
(* Program constants.                                                      *)
(***************************************************************************)
\* vision-queue.js:20  QUEUE_CONCURRENCY
QUEUE_CONCURRENCY == 2
\* vision-queue.js:21  QUEUE_RETRY_ATTEMPTS
QUEUE_RETRY_ATTEMPTS == 3
\* vision-queue.js:79  maxTags: 15
WorkerMaxTags == 15
\* vision-queue.js:80  minConfidence: 0.5, in tenths
WorkerMinConfidence == 5
\* vision-service.js:314  confidence: 0.8 of the text fallback, in tenths
TextConfidence == 8

PhotoIds == 1..NumPhotos

(***************************************************************************)
(* Strings.                                                                *)
(***************************************************************************)
LowerChar(c) ==
  CASE c = "A" -> "a"
    [] c = "B" -> "b"
    [] c = "C" -> "c"
    [] OTHER -> c

\* String.prototype.toLowerCase
ToLowerCase(s) == [i \in 1..Len(s) |-> LowerChar(s[i])]

RECURSIVE TrimLeft(_)
TrimLeft(s) == IF s # <<>> /\ Head(s) = " " THEN TrimLeft(Tail(s)) ELSE s

RECURSIVE TrimRight(_)
TrimRight(s) ==
  IF s # <<>> /\ s[Len(s)] = " " THEN TrimRight(SubSeq(s, 1, Len(s) - 1)) ELSE s

\* String.prototype.trim
Trim(s) == TrimRight(TrimLeft(s))

\* String.prototype.includes
Includes(s, w) ==
  \E i \in 1..(Len(s) - Len(w) + 1) : SubSeq(s, i, i + Len(w) - 1) = w

Range(s) == {s[i] : i \in 1..Len(s)}

\* Array.prototype.slice(0, n)
Slice(s, n) == SubSeq(s, 1, IF Len(s) < n THEN Len(s) ELSE n)

ta == <<"a">>
tA == <<"A">>
tb == <<"b">>
tc == <<"c">>
tab == <<"a", "b">>
tSpA == <<" ", "A">>
tConfidence == <<"c", "o", "n", "f", "i", "d", "e", "n", "c", "e">>

(***************************************************************************)
(* MongoDB $addToSet with $each: every value that is not yet an element    *)
(* of the array is appended, in order; what the array held stays.          *)
(***************************************************************************)
\* $push in place of $addToSet
PushEach(arr, each) == arr \o each

RECURSIVE AddToSet(_, _)
AddToSet(arr, each) ==
  IF each = <<>> THEN arr
  ELSE AddToSet(IF Head(each) \in Range(arr) THEN arr ELSE Append(arr, Head(each)),
                Tail(each))

\* [...new Set(names.map((t) => t.toLowerCase()))]
UniqueLower(names) == {ToLowerCase(names[i]) : i \in 1..Len(names)}

(***************************************************************************)
(* Vision Tagging Service (vision-service.js).                             *)
(*                                                                         *)
(* A response of the model is the text the LLM returned, by the tier of    *)
(* the parser that reads it: "object" is a JSON object with a tags array   *)
(* of {tag, confidence}, "array" a bare JSON array of them, "text" prose   *)
(* whose quoted or word-like matches are the items' tags.                  *)
(***************************************************************************)
Item(t, c) == [tag |-> t, confidence |-> c]

\* scenario B of the spec: one tag above and one below minConfidence
RespScenarioB == [shape |-> "object", items |-> <<Item(ta, 9), Item(tb, 3)>>]
\* a tag at exactly minConfidence, differing from an earlier one by case only
RespCase == [shape |-> "array", items |-> <<Item(ta, 9), Item(tA, 5)>>]
RespEmpty == [shape |-> "object", items |-> <<>>]
\* more passing tags than maxTags: fifteen "b", then "a"
RespLong ==
  [shape |-> "object",
   items |-> [i \in 1..(WorkerMaxTags + 1) |->
                IF i <= WorkerMaxTags THEN Item(tb, 9) ELSE Item(ta, 9)]]
RespText == [shape |-> "text", items |-> <<Item(tab, 0), Item(ta, 0), Item(tab, 0)>>]

\* the responses the pipeline's runs draw from
Responses == <<RespScenarioB, RespCase, RespEmpty, RespLong>>

\* > in place of >=
FilterConfidenceStrict(items, minConfidence) ==
  SelectSeq(items, LAMBDA t : t.confidence > minConfidence)

\* .filter((t) => t.confidence >= minConfidence)
FilterConfidence(items, minConfidence) ==
  SelectSeq(items, LAMBDA t : t.confidence >= minConfidence)

\* tier (c): tagMatches.slice(0, maxTags).forEach(...)
RECURSIVE TextTags(_, _)
TextTags(matches, acc) ==
  IF matches = <<>> THEN acc
  ELSE LET tag == Trim(ToLowerCase(Head(matches).tag))
           seen == {acc[i].tag : i \in 1..Len(acc)}
       IN  TextTags(Tail(matches),
                    IF Len(tag) > 1 /\ tag \notin seen /\ ~Includes(tag, tConfidence)
                    THEN Append(acc, Item(tag, TextConfidence))
                    ELSE acc)

ParseTagsFromResponse(response, maxTags, minConfidence) ==
  IF response.shape \in {"object", "array"}
  THEN Slice(FilterConfidence(response.items, minConfidence), maxTags)
  ELSE TextTags(Slice(response.items, maxTags), <<>>)

(***************************************************************************)
(* What one call of generateTags meets: the availability probe, the read   *)
(* of the image file, then the request.  req = 0 is a request that rejects *)
(* with an error whose message is `message`; req = i > 0 is the i-th       *)
(* response.                                                               *)
(***************************************************************************)
\* the responses a call alone is checked on: the pipeline's and prose
AllResponses == Responses \o <<RespText>>

\* messages of the errors makeRequest rejects with: its own (timeout, HTTP
\* status, invalid JSON) and the runtime's for a network error, which the
\* service passes on as it is; the AggregateError of a refused connection
\* carries an empty message
RequestErrors ==
  {"Request timeout", "HTTP 500", "Invalid JSON response", "socket hang up", ""}

Outcome(avail, read, req, message) ==
  [avail |-> avail, read |-> read, req |-> req, message |-> message]

\* the outcomes the pipeline's runs draw from
LlmOutcomes ==
  {Outcome(FALSE, TRUE, 0, "Request timeout")}
    \cup {Outcome(TRUE, TRUE, i, "Request timeout") : i \in 0..Len(Responses)}

\* every outcome of probe, read and request
AllLlmOutcomes ==
  {Outcome(a, r, i, m) : a \in BOOLEAN, r \in BOOLEAN,
                         i \in 0..Len(AllResponses), m \in RequestErrors}

NoOutcome == Outcome(FALSE, TRUE, -1, "")

\* 211-232: the error thrown inside the try block, if one is
Thrown(o) ==
  IF ~o.avail THEN [thrown |-> TRUE, message |-> "Vision LLM not available"]
  ELSE IF ~o.read THEN [thrown |-> TRUE, message |-> "Failed to read image"]
  ELSE IF o.req = 0 THEN [thrown |-> TRUE, message |-> o.message]
  ELSE [thrown |-> FALSE, message |-> ""]

\* a catch that throws the error on
CaughtRethrown(message) ==
  [raised |-> TRUE, success |-> FALSE, tags |-> <<>>, error |-> message]

\* 252-265: catch (error) { return {success: false, error: error.message, tags: []} }
Caught(message) ==
  [raised |-> FALSE, success |-> FALSE, tags |-> <<>>, error |-> message]

GenerateTags(o, maxTags, minConfidence) ==
  IF Thrown(o).thrown
  THEN Caught(Thrown(o).message)
  ELSE [raised |-> FALSE, success |-> TRUE,
        tags |-> ParseTagsFromResponse(AllResponses[o.req], maxTags, minConfidence),
        error |-> ""]

\* result.tags.map((t) => t.tag)
TagNames(tags) == [i \in 1..Len(tags) |-> tags[i].tag]

(***************************************************************************)
(* State.                                                                  *)
(***************************************************************************)
VARIABLES
  photos,      \* the Photo collection, by photo id
  nextId,      \* the id the next Photo.create gives
  photoCount,  \* stats.photoCount of the uploading user
  index,       \* the Tag collection: name -> usageCount, DOMAIN = names stored
  job,         \* the Bull queue entry "vision-" + photoId, by photo id
  w,           \* the processor's run for that entry: position and locals
  tmp,         \* whether a temp file /tmp/vision-<photoId>-... is on disk
  fn           \* a function under check alone: its arguments and results

sys == <<photos, nextId, photoCount, index, job, w, tmp>>
vars == <<sys, fn>>

NoFn == [op |-> "none"]

\* visionStatus is the top-level path POST /upload sets; mVisionStatus and
\* mVisionError are the paths metadata.visionStatus and metadata.visionError
\* the processor sets, with the values its updates carry (the photo schema
\* declares the status at the top level only)
NoPhoto ==
  [exists |-> FALSE, tags |-> <<>>, visionStatus |-> "none",
   mVisionStatus |-> "none", mVisionError |-> ""]

\* last: the last status value an attempt of this entry wrote; llm: whether
\* every generateTags call of this entry met an unreachable endpoint
NoJob == [state |-> "none", attemptsMade |-> 0, last |-> "none", llm |-> "none"]

\* wrote: the status values this attempt has written, in order
Idle == [pc |-> "idle", filePath |-> "none", llm |-> NoOutcome, err |-> "", wrote |-> <<>>]

InitSys ==
  /\ photos = [p \in PhotoIds |-> NoPhoto]
  /\ nextId = 1
  /\ photoCount = 0
  /\ index = <<>>
  /\ job = [p \in PhotoIds |-> NoJob]
  /\ w = [p \in PhotoIds |-> Idle]
  /\ tmp = [p \in PhotoIds |-> FALSE]

Init == InitSys /\ fn = NoFn

(***************************************************************************)
(* Tag Usage Index.                                                        *)
(***************************************************************************)
\* Tag.findOneAndUpdate({name}, {$inc: {usageCount: 1}}, {upsert: true})
IncUsage(idx, name) ==
  IF name \in DOMAIN idx THEN [idx EXCEPT ![name] = @ + 1] ELSE idx @@ (name :> 1)

RECURSIVE IncAll(_, _)
IncAll(idx, names) ==
  IF names = {} THEN idx
  ELSE LET n == CHOOSE x \in names : TRUE
       IN  IncAll(IncUsage(idx, n), names \ {n})

\* the counters the model caps stay within the cap
CanInc(names) == \A n \in names : n \in DOMAIN index => index[n] < MaxUsage

(***************************************************************************)
(* POST /api/photos/upload (photos.js 82-202).                             *)
(***************************************************************************)
TagArrays == {<<>>, <<ta>>, <<ta, tA>>, <<tb, tb>>}

\* req.body.tags: absent, a comma-separated string (given split), or an array
UploadTagInputs ==
  {[form |-> "none", tags |-> <<>>], [form |-> "string", tags |-> <<ta, tSpA>>]}
    \cup {[form |-> "array", tags |-> t] : t \in TagArrays \ {<<>>}}

\* mediaService.getAITags(url), mapped to names
ProviderTagNames == {<<>>, <<tA>>}

\* photos.js 121-132
AllTags(input, providerTagNames, url) ==
  LET manual == IF input.form = "string"
                THEN [i \in 1..Len(input.tags) |-> Trim(input.tags[i])]
                ELSE input.tags
  IN  IF url = "http" THEN manual \o providerTagNames ELSE manual

\* photos.js 135-151
NewPhoto(allTags) ==
  [exists |-> TRUE, tags |-> allTags, visionStatus |-> "pending",
   mVisionStatus |-> "none", mVisionError |-> ""]

\* the names as typed, without toLowerCase
UploadIndexNamesAsTyped(allTags) == Range(allTags)

\* photos.js 159
UploadIndexNames(allTags) == UniqueLower(allTags)

\* A request without a file (400), or whose mediaService.upload or
\* Photo.create throws (500), returns before anything is written.  After
\* the writes, line 183 reads autoTaggingEnabled, which nothing declares:
\* the ReferenceError lands in the catch and the response is 500.  No call
\* of queueVisionProcessing is made ("Auto tagging is disabled", 170).
Upload ==
  \E input \in UploadTagInputs, url \in {"local", "http"}, pt \in ProviderTagNames :
    LET allTags == AllTags(input, pt, url)
        names == UploadIndexNames(allTags)
    IN
    /\ nextId <= NumPhotos
    /\ url = "local" => pt = <<>>
    /\ CanInc(names)
    /\ \E applied \in SUBSET names :
         /\ photos' = [photos EXCEPT ![nextId] = NewPhoto(allTags)]
         /\ nextId' = nextId + 1
         /\ photoCount' = photoCount + 1
         /\ index' = IncAll(index, applied)
    /\ UNCHANGED <<fn, job, w, tmp>>

(***************************************************************************)
(* PUT /api/photos/:photoId (photos.js 303-370).                           *)
(***************************************************************************)
PutBodies ==
  {[given |-> FALSE, tags |-> <<>>]} \cup {[given |-> TRUE, tags |-> t] : t \in TagArrays}

\* photos.js 337
PutIndexNames(tags) == UniqueLower(tags)

\* photos.js 335, 349-353
SetTags(rec, tags) == [rec EXCEPT !.tags = tags]

\* 404 (no such photo) and 403 (not the owner) return before any write
PutPhoto(p) ==
  \E body \in PutBodies :
    /\ photos[p].exists
    /\ body.given
    /\ \E applied \in SUBSET PutIndexNames(body.tags) :
         /\ CanInc(PutIndexNames(body.tags))
         /\ index' = IncAll(index, applied)
         /\ photos' = IF applied = PutIndexNames(body.tags)
                      THEN [photos EXCEPT ![p] = SetTags(@, body.tags)]
                      ELSE photos
    /\ UNCHANGED <<fn, nextId, photoCount, job, w, tmp>>

(***************************************************************************)
(* POST /api/tags and PUT /api/tags/:tagId (albums.js 632-754).            *)
(***************************************************************************)
TagNameInputs == {ta, tA, tSpA, tb}

\* albums.js 667 and 713
NormalizeName(name) == Trim(ToLowerCase(name))

CreateTag(name) ==
  /\ NormalizeName(name) \notin DOMAIN index
  /\ index' = index @@ (NormalizeName(name) :> 0)
  /\ UNCHANGED <<fn, photos, nextId, photoCount, job, w, tmp>>

\* the unique index on name rejects a name another record holds
UpdateTag(old, name) ==
  LET new == NormalizeName(name) IN
  /\ old \in DOMAIN index
  /\ new \notin DOMAIN index
  /\ index' = [n \in (DOMAIN index \ {old}) \cup {new} |->
                 IF n = new THEN index[old] ELSE index[n]]
  /\ UNCHANGED <<fn, photos, nextId, photoCount, job, w, tmp>>

(***************************************************************************)
(* Job Queue (vision-queue.js 37-49, 184-210).  Bull keeps one entry per   *)
(* job id: add() with the id of an entry it still holds, in whatever       *)
(* state, adds nothing.                                                    *)
(***************************************************************************)
QueueVisionProcessing(p) ==
    /\ photos[p].exists
    /\ job[p].state = "none"
    /\ job' = [job EXCEPT ![p] = [NoJob EXCEPT !.state = "waiting"]]
    /\ UNCHANGED <<fn, photos, nextId, photoCount, index, w, tmp>>

Active == {p \in PhotoIds : job[p].state = "active"}

\* the backoff delay of a retry has passed
Promote(p) ==
  /\ job[p].state = "delayed"
  /\ job' = [job EXCEPT ![p].state = "waiting"]
  /\ UNCHANGED <<fn, photos, nextId, photoCount, index, w, tmp>>

\* removeOnComplete / removeOnFail trimming and cleanup() (237-241)
RemoveFinished(p) ==
  /\ job[p].state \in {"completed", "failed"}
  /\ job' = [job EXCEPT ![p] = NoJob]
  /\ UNCHANGED <<fn, photos, nextId, photoCount, index, w, tmp>>

\* the processor returned: Bull moves the entry to completed
MoveToCompleted(j) == [j EXCEPT !.state = "completed"]

\* one retry too many
MoveToFailedExtraRetry(j) ==
  [j EXCEPT !.attemptsMade = @ + 1,
            !.state = IF j.attemptsMade + 1 <= QUEUE_RETRY_ATTEMPTS
                      THEN "delayed" ELSE "failed"]

\* the processor threw: Bull counts the attempt and retries while
\* attemptsMade < attempts
MoveToFailed(j) ==
  [j EXCEPT !.attemptsMade = @ + 1,
            !.state = IF j.attemptsMade + 1 < QUEUE_RETRY_ATTEMPTS
                      THEN "delayed" ELSE "failed"]

(***************************************************************************)
(* The processor (vision-queue.js 54-139), one step per await.             *)
(***************************************************************************)
\* an update with upsert: true
FindByIdAndUpsert(p, rec) == [photos EXCEPT ![p] = [rec EXCEPT !.exists = TRUE]]

\* Photo.findByIdAndUpdate(photoId, update): no document, no write
FindByIdAndUpdate(p, rec) ==
  IF photos[p].exists THEN [photos EXCEPT ![p] = rec] ELSE photos

\* 61-64
SetProcessing(rec) == [rec EXCEPT !.mVisionStatus = "processing"]

\* 88-95
SetCompletedTags(rec, tagNames) ==
  [rec EXCEPT !.tags = AddToSet(@, tagNames), !.mVisionStatus = "completed"]

\* the note is result.error alone, without the || "No tags generated"
SetCompletedNoNote(rec, error) ==
  [rec EXCEPT !.mVisionStatus = "completed", !.mVisionError = error]

\* 114-118
SetCompletedNoTags(rec, error) ==
  [rec EXCEPT !.mVisionStatus = "completed",
              !.mVisionError = IF error # "" THEN error ELSE "No tags generated"]

\* the catch puts the record back to pending for the retry
SetFailedResetsPending(rec, message) ==
  [rec EXCEPT !.mVisionStatus = "pending", !.mVisionError = message]

\* 131-135
SetFailed(rec, message) ==
  [rec EXCEPT !.mVisionStatus = "failed", !.mVisionError = message]

\* 98
WorkerIndexNames(tagNames) == UniqueLower(tagNames)

\* the status value an update of the record writes
Written(rec) == rec.mVisionStatus

\* 83: which branch the result takes
HasTags(result) == result.success /\ Len(result.tags) > 0

Result(p) == GenerateTags(w[p].llm, WorkerMaxTags, WorkerMinConfidence)

\* a worker with a free slot takes the waiting entry
WorkerStart(p) ==
  /\ job[p].state = "waiting"
  /\ Cardinality(Active) < QUEUE_CONCURRENCY
  /\ job' = [job EXCEPT ![p].state = "active"]
  /\ w' = [w EXCEPT ![p] = [Idle EXCEPT !.pc = "start"]]
  /\ UNCHANGED <<fn, photos, nextId, photoCount, index, tmp>>

\* 61-64
WriteProcessing(p) ==
  /\ w[p].pc = "start"
  /\ \E ok \in BOOLEAN :
       IF ok
       THEN /\ photos' = FindByIdAndUpdate(p, SetProcessing(photos[p]))
            /\ w' = [w EXCEPT ![p].pc = "source",
                              ![p].wrote = Append(@, Written(SetProcessing(photos[p])))]
            /\ job' = [job EXCEPT ![p].last = Written(SetProcessing(photos[p]))]
       ELSE /\ w' = [w EXCEPT ![p].pc = "catch", ![p].err = "store error"]
            /\ UNCHANGED <<fn, photos, job>>
  /\ UNCHANGED <<fn, nextId, photoCount, index, tmp>>

\* 66-75: the file at imagePath when the job names one that exists, or a
\* download of imageUrl to a temp file, which may fail
ImageSource(p) ==
  /\ w[p].pc = "source"
  /\ \E src \in {"local", "tmp", "download error"} :
       /\ IF src \in {"local", "tmp"}
          THEN /\ w' = [w EXCEPT ![p].pc = "tag", ![p].filePath = src]
               /\ tmp' = IF src = "tmp" THEN [tmp EXCEPT ![p] = TRUE] ELSE tmp
          ELSE /\ w' = [w EXCEPT ![p].pc = "catch", ![p].err = src]
               /\ UNCHANGED tmp
  /\ UNCHANGED <<fn, photos, nextId, photoCount, index, job>>

\* 78-81
CallVision(p) ==
  /\ w[p].pc = "tag"
  /\ \E o \in LlmOutcomes :
       /\ w' = [w EXCEPT ![p].pc = "result", ![p].llm = o]
       /\ job' = [job EXCEPT ![p].llm = IF ~o.avail /\ @ \in {"none", "unreachable"}
                                        THEN "unreachable" ELSE "reached"]
  /\ UNCHANGED <<fn, photos, nextId, photoCount, index, tmp>>

\* 83-95
WriteTags(p) ==
  /\ w[p].pc = "result"
  /\ HasTags(Result(p))
  /\ \E ok \in BOOLEAN :
       IF ok
       THEN LET rec == SetCompletedTags(photos[p], TagNames(Result(p).tags)) IN
            /\ photos' = FindByIdAndUpdate(p, rec)
            /\ w' = [w EXCEPT ![p].pc = "index", ![p].wrote = Append(@, Written(rec))]
            /\ job' = [job EXCEPT ![p].last = Written(rec)]
       ELSE /\ w' = [w EXCEPT ![p].pc = "catch", ![p].err = "store error"]
            /\ UNCHANGED <<fn, photos, job>>
  /\ UNCHANGED <<fn, nextId, photoCount, index, tmp>>

\* 97-107: Promise.all of the upserts; one that rejects leaves the others done
UpdateTagUsage(p) ==
  /\ w[p].pc = "index"
  /\ LET names == WorkerIndexNames(TagNames(Result(p).tags)) IN
     \E applied \in SUBSET names :
       /\ CanInc(names)
       /\ index' = IncAll(index, applied)
       /\ w' = IF applied = names
               THEN [w EXCEPT ![p].pc = "cleanup"]
               ELSE [w EXCEPT ![p].pc = "catch", ![p].err = "store error"]
  /\ UNCHANGED <<fn, photos, nextId, photoCount, job, tmp>>

\* 112-119
WriteNoTags(p) ==
  /\ w[p].pc = "result"
  /\ ~HasTags(Result(p))
  /\ \E ok \in BOOLEAN :
       IF ok
       THEN LET rec == SetCompletedNoTags(photos[p], Result(p).error) IN
            /\ photos' = FindByIdAndUpdate(p, rec)
            /\ w' = [w EXCEPT ![p].pc = "cleanup", ![p].wrote = Append(@, Written(rec))]
            /\ job' = [job EXCEPT ![p].last = Written(rec)]
       ELSE /\ w' = [w EXCEPT ![p].pc = "catch", ![p].err = "store error"]
            /\ UNCHANGED <<fn, photos, job>>
  /\ UNCHANGED <<fn, nextId, photoCount, index, tmp>>

\* 121-126: unlink the temp file and return; Bull completes the entry
Return(p) ==
  /\ w[p].pc = "cleanup"
  /\ tmp' = IF w[p].filePath = "tmp" THEN [tmp EXCEPT ![p] = FALSE] ELSE tmp
  /\ w' = [w EXCEPT ![p] = Idle]
  /\ job' = [job EXCEPT ![p] = MoveToCompleted(@)]
  /\ UNCHANGED <<fn, photos, nextId, photoCount, index>>

\* the catch records the failure and returns instead of throwing again
CatchSwallows(p) ==
  /\ w[p].pc = "catch"
  /\ photos' = FindByIdAndUpdate(p, SetFailed(photos[p], w[p].err))
  /\ w' = [w EXCEPT ![p] = Idle]
  /\ job' = [job EXCEPT ![p] = [MoveToCompleted(@) EXCEPT !.last = "failed"]]
  /\ UNCHANGED <<fn, nextId, photoCount, index, tmp>>

\* 127-135: record the failure
Catch(p) ==
  /\ w[p].pc = "catch"
  /\ \E ok \in BOOLEAN :
       IF ok
       THEN LET rec == SetFailed(photos[p], w[p].err) IN
            /\ photos' = FindByIdAndUpdate(p, rec)
            /\ w' = [w EXCEPT ![p].pc = "throw", ![p].wrote = Append(@, Written(rec))]
            /\ job' = [job EXCEPT ![p].last = Written(rec)]
       ELSE /\ w' = [w EXCEPT ![p].pc = "throw", ![p].err = "store error"]
            /\ UNCHANGED <<fn, photos, job>>
  /\ UNCHANGED <<fn, nextId, photoCount, index, tmp>>

\* 137: throw again; Bull counts the attempt
Rethrow(p) ==
  /\ w[p].pc = "throw"
  /\ w' = [w EXCEPT ![p] = Idle]
  /\ job' = [job EXCEPT ![p] = MoveToFailed(@)]
  /\ UNCHANGED <<fn, photos, nextId, photoCount, index, tmp>>

Next ==
  \/ Upload
  \/ \E p \in PhotoIds : PutPhoto(p)
  \/ \E name \in TagNameInputs : CreateTag(name)
  \/ \E old \in DOMAIN index, name \in TagNameInputs : UpdateTag(old, name)
  \/ \E p \in PhotoIds : QueueVisionProcessing(p)
  \/ \E p \in PhotoIds : WorkerStart(p)
  \/ \E p \in PhotoIds : WriteProcessing(p)
  \/ \E p \in PhotoIds : ImageSource(p)
  \/ \E p \in PhotoIds : CallVision(p)
  \/ \E p \in PhotoIds : WriteTags(p)
  \/ \E p \in PhotoIds : UpdateTagUsage(p)
  \/ \E p \in PhotoIds : WriteNoTags(p)
  \/ \E p \in PhotoIds : Return(p)
  \/ \E p \in PhotoIds : Catch(p)
  \/ \E p \in PhotoIds : Rethrow(p)
  \/ \E p \in PhotoIds : Promote(p)
  \/ \E p \in PhotoIds : RemoveFinished(p)

Spec == Init /\ [][Next]_vars

(***************************************************************************)
(* The tag merge of the processor alone: $addToSet of a tag list T into a  *)
(* photo's tag list S, run twice (vision-queue.js 88-89).  S ranges over   *)
(* the lists the routes can store, which they store as given.              *)
(***************************************************************************)
MergeTags == {ta, tA, tb}

MergeLists == UNION {[1..n -> MergeTags] : n \in 0..MaxMergeLen}

InitMerge ==
  /\ InitSys
  /\ fn \in {[op |-> "merge", S |-> s, T |-> t, runs |-> 0, first |-> s, out |-> s] :
               s \in MergeLists, t \in MergeLists \ {<<>>}}

\* Photo.findByIdAndUpdate(photoId, {$addToSet: {tags: {$each: tagNames}}})
Merge ==
  /\ fn.op = "merge"
  /\ fn.runs < 2
  /\ fn' = [fn EXCEPT !.runs = @ + 1,
                      !.first = IF fn.runs = 0 THEN AddToSet(fn.out, fn.T) ELSE @,
                      !.out = AddToSet(fn.out, fn.T)]
  /\ UNCHANGED sys

NextMerge == Merge

SpecMerge == InitMerge /\ [][NextMerge]_vars

(***************************************************************************)
(* Properties.                                                             *)
(***************************************************************************)
Last(s) == s[Len(s)]

\* s is a subsequence of t
RECURSIVE IsSubsequence(_, _)
IsSubsequence(s, t) ==
  IF s = <<>> THEN TRUE
  ELSE IF t = <<>> THEN FALSE
  ELSE IF Head(s) = Head(t) THEN IsSubsequence(Tail(s), Tail(t))
  ELSE IsSubsequence(s, Tail(t))

Terminal == {"completed", "failed"}

C3_UnreachableEndsFailed ==
  \A p \in PhotoIds :
    (job[p].state \in Terminal /\ job[p].llm = "unreachable")
      => /\ photos[p].mVisionStatus = "failed"
         /\ photos[p].mVisionError # ""

\* C4: the upload that creates a Photo Record enqueues a tagging job for it.
C4_UploadEnqueues ==
  [][\A p \in PhotoIds :
       (~photos[p].exists /\ photos'[p].exists) => job'[p].state # "none"]_vars

\* C5: the status the worker persists is the status readers get: visionStatus
\* reads processing from the worker's first write until the job ends, and
\* completed or failed after it.
C5_ReadersSeeWorkerStatus ==
  \A p \in PhotoIds :
    photos[p].exists =>
      /\ (job[p].state = "active" /\ job[p].last = "processing")
           => photos[p].visionStatus = "processing"
      /\ (job[p].state \in Terminal /\ job[p].last \in Terminal)
           => photos[p].visionStatus \in Terminal

\* the number of places of s that hold x
Count(s, x) == Cardinality({i \in 1..Len(s) : s[i] = x})

NoDuplicates(s) == \A x \in Range(s) : Count(s, x) = 1

C7_NoCaseInsensitiveDuplicates ==
  \A p \in PhotoIds :
    \A i, j \in 1..Len(photos[p].tags) :
      i # j => ToLowerCase(photos[p].tags[i]) # ToLowerCase(photos[p].tags[j])

\* the worker's step that applies the update of a result
WroteResult(p) == w[p].pc = "result" /\ w'[p].pc \in {"index", "cleanup"}

\* the service's request was answered with an array of tags, in an object or bare
ReturnedTagsArray(p) ==
  /\ w[p].llm.avail
  /\ w[p].llm.req > 0
  /\ Responses[w[p].llm.req].shape \in {"object", "array"}

\* the names of the returned tags whose confidence is at least minConfidence
Confident(items) ==
  {items[i].tag : i \in {k \in 1..Len(items) : items[k].confidence >= WorkerMinConfidence}}

\* the same, of the first maxTags such tags only
FirstConfident(items) ==
  {items[i].tag :
     i \in {k \in 1..Len(items) :
              /\ items[k].confidence >= WorkerMinConfidence
              /\ Cardinality({m \in 1..k : items[m].confidence >= WorkerMinConfidence})
                   <= WorkerMaxTags}}

\* C8, as stated: when the service returns a tags array the job adds exactly
\* the returned tags whose confidence is at least minConfidence, and the
\* status becomes completed.
C8_AddsAllConfidentTags ==
  [][\A p \in PhotoIds :
       (WroteResult(p) /\ ReturnedTagsArray(p)) =>
         /\ Range(photos'[p].tags) =
              Range(photos[p].tags) \cup Confident(Responses[w[p].llm.req].items)
         /\ photos'[p].mVisionStatus = "completed"]_vars

\* C8, amended: the job adds exactly the first maxTags (15) of the returned
\* tags whose confidence is at least minConfidence, after the tags the record
\* holds and in their order, and the status becomes completed.
C8_AddsFirstConfidentTags ==
  [][\A p \in PhotoIds :
       (WroteResult(p) /\ ReturnedTagsArray(p)) =>
         /\ Range(photos'[p].tags) =
              Range(photos[p].tags) \cup FirstConfident(Responses[w[p].llm.req].items)
         /\ SubSeq(photos'[p].tags, 1, Len(photos[p].tags)) = photos[p].tags
         /\ photos'[p].mVisionStatus = "completed"]_vars

\* scenario B applied: the 0.9 tag is on the record, the 0.3 tag is not
C8_Witness ==
  \E p \in PhotoIds :
    /\ w[p].pc = "index"
    /\ Responses[w[p].llm.req] = RespScenarioB
    /\ ta \in Range(photos[p].tags)
    /\ tb \notin Range(photos[p].tags)
    /\ photos[p].mVisionStatus = "completed"

\* the service call succeeded and the parser kept no tag
SucceededWithoutTags(p) ==
  /\ w[p].llm.avail
  /\ w[p].llm.req > 0
  /\ Result(p).tags = <<>>

C10_IndexNamesLowercase ==
  /\ \A n \in DOMAIN index : ToLowerCase(n) = n
  /\ \A n, m \in DOMAIN index : ToLowerCase(n) = ToLowerCase(m) => n = m

\* a photo carries "A" and the index holds "a", not "A"
C10_Witness ==
  \E p \in PhotoIds :
    /\ tA \in Range(photos[p].tags)
    /\ ta \in DOMAIN index
    /\ tA \notin DOMAIN index

\* C11: a usage count is the number of distinct photos the tag has gone with,
\* so it never exceeds the number of photos there are; writing the same tags to
\* the same photo again does not raise it.
C11_UsageCountsDistinctPhotos ==
  \A n \in DOMAIN index :
    index[n] <= Cardinality({p \in PhotoIds : photos[p].exists})

\* C15: once an attempt has ended, by return or by throw, the temp file it
\* downloaded is gone.
C15_TempFileGoneAfterAttempt ==
  \A p \in PhotoIds : w[p].pc = "idle" => ~tmp[p]

(***************************************************************************)
(* Photo deletion: DELETE /api/photos/:photoId (photos.js 375-434), DELETE  *)
(* /api/admin/photos/:photoId (admin.js 320-353) and the providers' delete  *)
(* (media.js 91-106, 155-157; cloudinary deleteImage; shortpixel            *)
(* deleteImage).  One photo: fn holds its record, where its image was       *)
(* stored and whether it still is, the provider configured now, and what    *)
(* the last request did.                                                    *)
(***************************************************************************)
Providers == {"local", "cloudinary", "shortpixel"}

\* the shape of the URL a provider's upload returns: the local provider gives
\* /uploads/images/..., the remote ones an http URL
UrlOf(producer) == IF producer = "local" THEN "local" ELSE "http"

\* media.js 91-106: the file at the path derived from the URL, removed if
\* there; the path of an http URL names no file
LocalProviderDelete(url, fileExists, unlinkOk) ==
  IF url = "local" /\ fileExists
  THEN IF unlinkOk THEN [success |-> TRUE, deleted |-> TRUE, error |-> ""]
       ELSE [success |-> FALSE, deleted |-> FALSE, error |-> "unlink error"]
  ELSE [success |-> TRUE, deleted |-> FALSE, error |-> ""]

\* cloudinary deleteImage: destroy is what uploader.destroy answers
CloudinaryDelete(producer, configured, destroy) ==
  IF ~configured
  THEN [success |-> FALSE, deleted |-> FALSE, error |-> "Cloudinary not configured"]
  ELSE IF producer # "cloudinary"
  THEN [success |-> FALSE, deleted |-> FALSE, error |-> "Invalid Cloudinary URL"]
  ELSE IF destroy = "error"
  THEN [success |-> FALSE, deleted |-> FALSE, error |-> "destroy error"]
  ELSE [success |-> destroy = "ok", deleted |-> destroy = "ok", error |-> ""]

\* shortpixel deleteImage: nothing is deleted
ShortpixelDelete == [success |-> TRUE, deleted |-> FALSE, error |-> ""]

\* media.js 155-157: the provider configured now, whatever produced the URL
MediaServiceDelete(s, unlinkOk, destroy) ==
  CASE s.configured = "local" -> LocalProviderDelete(s.url, s.stored, unlinkOk)
    [] s.configured = "cloudinary" ->
         CloudinaryDelete(s.producer, s.cloudCfg, destroy)
    [] OTHER -> ShortpixelDelete

\* the owner's unlinkSync on a file that is not there, without existsSync
InlineUnlinkUnchecked(fileExists, unlinkOk) ==
  IF fileExists /\ unlinkOk THEN "removed" ELSE "throws"

\* photos.js 406-411: if (fs.existsSync(filePath)) fs.unlinkSync(filePath)
InlineUnlink(fileExists, unlinkOk) ==
  IF ~fileExists THEN "absent" ELSE IF unlinkOk THEN "removed" ELSE "throws"

DeleteUsers == {"owner", "other"}

DestroyResults == {"ok", "not found", "error"}

InitDelete ==
  /\ InitSys
  /\ fn \in {[op |-> "delete", exists |-> TRUE, producer |-> pr, url |-> UrlOf(pr),
              stored |-> st, storedBefore |-> st, configured |-> cf, cloudCfg |-> cc,
              photoCount |-> 1, route |-> "none", status |-> 0, error |-> "",
              calls |-> <<>>, result |-> ShortpixelDelete] :
               pr \in Providers, cf \in Providers, st \in BOOLEAN, cc \in BOOLEAN}

\* what a request leaves in fn
Answer(s, route, status, error) ==
  [s EXCEPT !.route = route, !.status = status, !.error = error]

\* photos.js 375-434
DeletePhoto(user) ==
  /\ fn.op = "delete"
  /\ \E unlinkOk \in BOOLEAN, destroy \in DestroyResults, storeOk \in BOOLEAN :
       LET s == [fn EXCEPT !.calls = <<>>] IN
       IF ~s.exists THEN fn' = Answer(s, "owner", 404, "")
       ELSE IF user # "owner" THEN fn' = Answer(s, "owner", 403, "")
       ELSE IF s.url = "http"
       THEN LET r == MediaServiceDelete(s, unlinkOk, destroy)
                t == [s EXCEPT !.calls = <<s.configured>>, !.result = r,
                               !.stored = @ /\ ~r.deleted]
            IN  fn' = IF storeOk
                      THEN Answer([t EXCEPT !.exists = FALSE, !.photoCount = @ - 1],
                                  "owner", 200, "")
                      ELSE Answer(t, "owner", 500, "store")
       ELSE LET u == InlineUnlink(s.stored, unlinkOk) IN
            fn' = IF u = "throws" THEN Answer(s, "owner", 500, "unlink")
                  ELSE IF storeOk
                  THEN Answer([s EXCEPT !.stored = FALSE, !.exists = FALSE,
                                        !.photoCount = @ - 1], "owner", 200, "")
                  ELSE Answer([s EXCEPT !.stored = FALSE], "owner", 500, "store")
  /\ UNCHANGED sys

\* admin.js 320-353
AdminDeletePhoto ==
  /\ fn.op = "delete"
  /\ \E storeOk \in BOOLEAN :
       LET s == [fn EXCEPT !.calls = <<>>] IN
       fn' = IF ~storeOk THEN Answer(s, "admin", 500, "store")
             ELSE IF ~s.exists THEN Answer(s, "admin", 404, "")
             ELSE Answer([s EXCEPT !.exists = FALSE, !.photoCount = @ - 1],
                         "admin", 200, "")
  /\ UNCHANGED sys

NextDelete ==
  \/ \E user \in DeleteUsers : DeletePhoto(user)
  \/ AdminDeletePhoto

SpecDelete == InitDelete /\ [][NextDelete]_vars

\* C16: no Photo Record is deleted while its image is left in the storage
\* that produced its URL, whichever route deleted it.
C16_DeleteRemovesStoredImage ==
  fn.op = "delete" => (~fn.exists => ~fn.stored)

\* C17, as stated: the owner's delete of a photo with a local URL calls the
\* local provider's delete, and with the file missing it still succeeds and
\* removes the record.
C17_LocalDeleteThroughProvider ==
  (fn.op = "delete" /\ fn.route = "owner" /\ fn.url = "local" /\ fn.status = 200) =>
    /\ fn.calls = <<"local">>
    /\ ~fn.exists

\* C17, amended: the owner's delete of a photo with a local URL removes the
\* file itself (existsSync, unlinkSync) and calls no provider; a missing file
\* is no error and the record is removed; the local provider's delete, called
\* for an http URL, finds no file and reports success with deleted false.
C17_LocalDeleteInline ==
  fn.op = "delete" =>
    /\ (fn.route = "owner" /\ fn.url = "local") =>
         /\ fn.calls = <<>>
         /\ fn.status = 200 => (~fn.exists /\ ~fn.stored)
         /\ ~fn.storedBefore => fn.error # "unlink"
    /\ fn.calls = <<"local">> =>
         fn.result = [success |-> TRUE, deleted |-> FALSE, error |-> ""]

\* the owner deleted a photo with a local URL whose file was already missing
C17_Witness ==
  /\ fn.op = "delete"
  /\ fn.route = "owner"
  /\ fn.url = "local"
  /\ ~fn.storedBefore
  /\ fn.status = 200
  /\ ~fn.exists

(***************************************************************************)
(* The Bull queue as a list of entries (vision-queue.js 37-49, 184-210).   *)
(* queueVisionProcessing adds with jobId "vision-" + photoId; Bull's add   *)
(* with the id of an entry it holds returns that entry and adds none.      *)
(***************************************************************************)
\* photo ids jobs are queued for
NumJobIds == 2

JobIds == 1..NumJobIds

NewEntry(p) == [id |-> p, state |-> "waiting", attemptsMade |-> 0]

\* add() without the jobId option: every call makes an entry
BullAddAlways(entries, p) == Append(entries, NewEntry(p))

\* visionQueue.add(job, {jobId: `vision-${photoId}`})
BullAdd(entries, p) ==
  IF \E i \in 1..Len(entries) : entries[i].id = p
  THEN entries
  ELSE Append(entries, NewEntry(p))

\* the state of the entry of id p, "none" without one
EntryState(entries, p) ==
  IF \E i \in 1..Len(entries) : entries[i].id = p
  THEN entries[CHOOSE i \in 1..Len(entries) : entries[i].id = p].state
  ELSE "none"

RemoveAt(s, i) == SubSeq(s, 1, i - 1) \o SubSeq(s, i + 1, Len(s))

InitQueue ==
  /\ InitSys
  /\ fn = [op |-> "queue", entries |-> <<>>, addedId |-> 0, addedWhile |-> "none"]

\* vision-queue.js 184-210
QueueAdd(p) ==
  /\ fn.op = "queue"
  /\ Len(fn.entries) <= NumJobIds
  /\ fn' = [fn EXCEPT !.entries = BullAdd(@, p),
                      !.addedId = p,
                      !.addedWhile = EntryState(fn.entries, p)]
  /\ UNCHANGED sys

\* a worker with a free slot takes a waiting entry
QueueTake(i) ==
  /\ fn.op = "queue"
  /\ i \in 1..Len(fn.entries)
  /\ fn.entries[i].state = "waiting"
  /\ Cardinality({k \in 1..Len(fn.entries) : fn.entries[k].state = "active"})
       < QUEUE_CONCURRENCY
  /\ fn' = [fn EXCEPT !.entries[i].state = "active"]
  /\ UNCHANGED sys

\* the processor returned or threw
QueueSettle(i) ==
  /\ fn.op = "queue"
  /\ i \in 1..Len(fn.entries)
  /\ fn.entries[i].state = "active"
  /\ \E threw \in BOOLEAN :
       fn' = [fn EXCEPT !.entries[i] =
                IF threw THEN MoveToFailed(@) ELSE MoveToCompleted(@)]
  /\ UNCHANGED sys

\* the backoff delay has passed
QueuePromote(i) ==
  /\ fn.op = "queue"
  /\ i \in 1..Len(fn.entries)
  /\ fn.entries[i].state = "delayed"
  /\ fn' = [fn EXCEPT !.entries[i].state = "waiting"]
  /\ UNCHANGED sys

\* removeOnComplete / removeOnFail trimming and cleanup()
QueueRemove(i) ==
  /\ fn.op = "queue"
  /\ i \in 1..Len(fn.entries)
  /\ fn.entries[i].state \in {"completed", "failed"}
  /\ fn' = [fn EXCEPT !.entries = RemoveAt(@, i)]
  /\ UNCHANGED sys

NextQueue ==
  \/ \E p \in JobIds : QueueAdd(p)
  \/ \E i \in 1..NumJobIds : QueueTake(i)
  \/ \E i \in 1..NumJobIds : QueueSettle(i)
  \/ \E i \in 1..NumJobIds : QueuePromote(i)
  \/ \E i \in 1..NumJobIds : QueueRemove(i)

SpecQueue == InitQueue /\ [][NextQueue]_vars

\* C12: at all times at most one queue entry has the job id of a photo, and
\* a queueVisionProcessing call for a photo whose entry is waiting, delayed
\* or active adds none.
C12_OneEntryPerPhoto ==
  fn.op = "queue" =>
    /\ \A i, j \in 1..Len(fn.entries) :
         fn.entries[i].id = fn.entries[j].id => i = j
    /\ Len(fn.entries) <= NumJobIds

\* queueVisionProcessing was called for a photo whose entry was active, and
\* the queue holds one entry for it
C12_Witness ==
  /\ fn.op = "queue"
  /\ fn.addedWhile = "active"
  /\ Cardinality({i \in 1..Len(fn.entries) : fn.entries[i].id = fn.addedId}) = 1

(***************************************************************************)
(* The per-job timeout (vision-queue.js 23, 45).  When an attempt runs      *)
(* longer than JOB_TIMEOUT Bull rejects the attempt's promise and moves the *)
(* entry as for a throw; it has no means to stop the async processor,       *)
(* which runs on to its end.  fn holds one entry, the runs of the processor *)
(* started for it, and the status values written with the run that wrote    *)
(* each.                                                                    *)
(***************************************************************************)
NewRun == [pc |-> "start", current |-> TRUE]

InitTimeout ==
  /\ InitSys
  /\ fn = [op |-> "timeout",
           job |-> [state |-> "waiting", attemptsMade |-> 0],
           runs |-> <<>>, status |-> "none", writer |-> 0]

\* the run Bull still waits for
IsCurrent(i) == fn.runs[i].current /\ fn.job.state = "active"

\* a worker takes the entry and calls the processor
RunStart ==
  /\ fn.op = "timeout"
  /\ fn.job.state = "waiting"
  /\ fn' = [fn EXCEPT !.job.state = "active", !.runs = Append(@, NewRun)]
  /\ UNCHANGED sys

\* 61-64
RunWriteProcessing(i) ==
  /\ fn.op = "timeout"
  /\ i \in 1..Len(fn.runs)
  /\ fn.runs[i].pc = "start"
  /\ fn' = [fn EXCEPT !.runs[i].pc = "tag", !.status = "processing", !.writer = i]
  /\ UNCHANGED sys

\* 66-119: the image, generateTags and the update of its result, or a throw
RunWriteResult(i) ==
  /\ fn.op = "timeout"
  /\ i \in 1..Len(fn.runs)
  /\ fn.runs[i].pc = "tag"
  /\ \E threw \in BOOLEAN :
       fn' = IF threw
             THEN [fn EXCEPT !.runs[i].pc = "catch"]
             ELSE [fn EXCEPT !.runs[i].pc = "return", !.status = "completed",
                             !.writer = i]
  /\ UNCHANGED sys

\* 126: return; Bull completes the entry if it still waits for this run
RunReturn(i) ==
  /\ fn.op = "timeout"
  /\ i \in 1..Len(fn.runs)
  /\ fn.runs[i].pc = "return"
  /\ fn' = [fn EXCEPT !.runs[i].pc = "done",
                      !.job = IF IsCurrent(i) THEN MoveToCompleted(@) ELSE @]
  /\ UNCHANGED sys

\* 127-137: write failed and rethrow
RunCatch(i) ==
  /\ fn.op = "timeout"
  /\ i \in 1..Len(fn.runs)
  /\ fn.runs[i].pc = "catch"
  /\ fn' = [fn EXCEPT !.runs[i].pc = "done", !.status = "failed", !.writer = i,
                      !.job = IF IsCurrent(i) THEN MoveToFailed(@) ELSE @]
  /\ UNCHANGED sys

\* 45: timeout: JOB_TIMEOUT passes while the run is not done
JobTimeout(i) ==
  /\ fn.op = "timeout"
  /\ i \in 1..Len(fn.runs)
  /\ IsCurrent(i)
  /\ fn.runs[i].pc # "done"
  /\ fn' = [fn EXCEPT !.runs[i].current = FALSE, !.job = MoveToFailed(@)]
  /\ UNCHANGED sys

\* the backoff delay has passed
RetryDue ==
  /\ fn.op = "timeout"
  /\ fn.job.state = "delayed"
  /\ fn' = [fn EXCEPT !.job.state = "waiting"]
  /\ UNCHANGED sys

NextTimeout ==
  \/ RunStart
  \/ \E i \in 1..QUEUE_RETRY_ATTEMPTS : RunWriteProcessing(i)
  \/ \E i \in 1..QUEUE_RETRY_ATTEMPTS : RunWriteResult(i)
  \/ \E i \in 1..QUEUE_RETRY_ATTEMPTS : RunReturn(i)
  \/ \E i \in 1..QUEUE_RETRY_ATTEMPTS : RunCatch(i)
  \/ \E i \in 1..QUEUE_RETRY_ATTEMPTS : JobTimeout(i)
  \/ RetryDue

SpecTimeout == InitTimeout /\ [][NextTimeout]_vars

\* C13: at most one attempt of a photo's job is executing at any time, also
\* after an attempt timed out and was retried, so the status writes of two
\* attempts never interleave: a write is by the latest attempt started.
C13_OneAttemptExecuting ==
  fn.op = "timeout" =>
    /\ Cardinality({i \in 1..Len(fn.runs) : fn.runs[i].pc # "done"}) <= 1
    /\ fn.writer \in {0, Len(fn.runs)}

(***************************************************************************)
(* generateTags alone (vision-service.js 206-266), on every outcome of the *)
(* probe, the image read and the request, and every response.              *)
(***************************************************************************)
\* confidences are in tenths: 5 is the worker's 0.5, 9 a caller's 0.9
GenerateOptions ==
  {[maxTags |-> 1, minConfidence |-> 5], [maxTags |-> 15, minConfidence |-> 5],
   [maxTags |-> 15, minConfidence |-> 9]}

InitGenerate ==
  /\ InitSys
  /\ fn \in {[op |-> "generate", o |-> o, options |-> opt, done |-> FALSE,
              result |-> Caught("")] : o \in AllLlmOutcomes, opt \in GenerateOptions}

Generate ==
  /\ fn.op = "generate"
  /\ ~fn.done
  /\ fn' = [fn EXCEPT !.done = TRUE,
                      !.result = GenerateTags(fn.o, fn.options.maxTags,
                                              fn.options.minConfidence)]
  /\ UNCHANGED sys

NextGenerate == Generate

SpecGenerate == InitGenerate /\ [][NextGenerate]_vars

\* C14, as stated: generateTags never raises, and a result with success false
\* has tags = [] and a non-empty error.
C14_NeverRaisesNonEmptyError ==
  (fn.op = "generate" /\ fn.done) =>
    /\ ~fn.result.raised
    /\ ~fn.result.success => (fn.result.tags = <<>> /\ fn.result.error # "")

\* C14, amended: generateTags never raises; a result with success false has
\* tags = [] and as error the message of the error caught, which is empty only
\* when the request rejected with a network error of empty message; a result
\* with success true has no error.
C14_NeverRaisesErrorIsMessage ==
  (fn.op = "generate" /\ fn.done) =>
    /\ ~fn.result.raised
    /\ ~fn.result.success =>
         /\ fn.result.tags = <<>>
         /\ fn.result.error = Thrown(fn.o).message
         /\ fn.result.error = "" =>
              (fn.o.avail /\ fn.o.read /\ fn.o.req = 0 /\ fn.o.message = "")
    /\ fn.result.success <=> (fn.o.avail /\ fn.o.read /\ fn.o.req > 0)
    /\ fn.result.success => fn.result.error = ""

\* the image could not be read: a result, not an exception
C14_Witness ==
  /\ fn.op = "generate"
  /\ fn.done
  /\ fn.o.avail
  /\ ~fn.o.read
  /\ ~fn.result.success
  /\ fn.result.error = "Failed to read image"

(***************************************************************************)
(* POST /api/photos/:photoId/like (photos.js 439-485) on one photo.  Each  *)
(* request reads the document (findById), changes its copy and saves it;   *)
(* requests of several clients interleave between the read and the save.   *)
(* Mongoose saves a push as $push, a splice as $set of the whole array     *)
(* under a check of the version key, and the assigned counter as $set.     *)
(***************************************************************************)
\* users who like
NumLikers == 2
\* requests in flight at once
NumLikeRequests == 2
\* cap of the distance of metadata.likes from 0
MaxLikes == 2

LikeUsers == 1..NumLikers

\* Array.prototype.indexOf, from 1; 0 when absent
IndexOf(s, x) ==
  IF \E i \in 1..Len(s) : s[i] = x
  THEN CHOOSE i \in 1..Len(s) : s[i] = x /\ \A k \in 1..(i - 1) : s[k] # x
  ELSE 0

\* stale: the version key has moved since this request read the document
NoRequest == [pc |-> "idle", user |-> 0, likes |-> <<>>, count |-> 0, stale |-> FALSE]

\* a save that changes the array increments __v: the copies read before it
\* are of an older version
BumpVersion(req, r) ==
  [k \in DOMAIN req |->
     IF k = r THEN NoRequest
     ELSE IF req[k].pc = "loaded" THEN [req[k] EXCEPT !.stale = TRUE] ELSE req[k]]

InitLikes ==
  /\ InitSys
  /\ fn = [op |-> "likes", likes |-> <<>>, count |-> 0,
           req |-> [r \in 1..NumLikeRequests |-> NoRequest]]

\* 441: const photo = await Photo.findById(...)
LikeLoad(r, u) ==
  /\ fn.op = "likes"
  /\ fn.req[r].pc = "idle"
  /\ fn' = [fn EXCEPT !.req[r] = [pc |-> "loaded", user |-> u, likes |-> fn.likes,
                                  count |-> fn.count, stale |-> FALSE]]
  /\ UNCHANGED sys

\* 453-465: toggle on the copy, then photo.save()
LikeSave(r) ==
  /\ fn.op = "likes"
  /\ fn.req[r].pc = "loaded"
  /\ LET q == fn.req[r]
         likeIndex == IndexOf(q.likes, q.user)
     IN  IF likeIndex > 0
         THEN \* unlike: splice, saved as $set of the array where __v matches
              IF ~q.stale
              THEN /\ q.count - 1 >= 0 - MaxLikes
                   /\ fn' = [fn EXCEPT !.likes = RemoveAt(q.likes, likeIndex),
                                       !.count = q.count - 1,
                                       !.req = BumpVersion(@, r)]
              ELSE fn' = [fn EXCEPT !.req[r] = NoRequest]
         ELSE \* like: push, saved as $push
              /\ q.count + 1 <= MaxLikes
              /\ fn' = [fn EXCEPT !.likes = Append(@, q.user),
                                  !.count = q.count + 1,
                                  !.req = BumpVersion(@, r)]
  /\ UNCHANGED sys

NextLikes ==
  \/ \E r \in 1..NumLikeRequests, u \in LikeUsers : LikeLoad(r, u)
  \/ \E r \in 1..NumLikeRequests : LikeSave(r)

SpecLikes == InitLikes /\ [][NextLikes]_vars

\* C18: after any like requests, in any interleaving, metadata.likes is the
\* number of distinct user ids in likes and no user id is in likes twice.
C18_LikeCounterMatchesSet ==
  (fn.op = "likes" /\ \A r \in 1..NumLikeRequests : fn.req[r].pc = "idle") =>
    /\ fn.count = Cardinality(Range(fn.likes))
    /\ NoDuplicates(fn.likes)

(***************************************************************************)
(* makeRequest (vision-service.js 29-122).  A call sends one HTTP request  *)
(* and returns a promise.  The request ends by a response, by a network    *)
(* error, or by the socket's timeout before a response; the timeout        *)
(* handler calls req.destroy(), and a request destroyed before its         *)
(* response emits 'error' (socket hang up) afterwards.  A handler with     *)
(* retries > 0 sets a timer whose callback calls makeRequest with          *)
(* retries - 1 and settles its own promise with that call's result.  A     *)
(* promise keeps its first settlement; later resolve/reject calls on it    *)
(* do nothing.                                                             *)
(***************************************************************************)
\* largest retries argument of the first call
MaxBudget == 2

\* new Promise(...) of a call made with this retries argument by the timer
\* callback of call parent (0: the caller outside makeRequest)
NewCall(retries, parent) ==
  [retries |-> retries, parent |-> parent, req |-> "inflight",
   settled |-> "pending", timers |-> 0]

\* resolve(...) or reject(...) of call i; the awaiting callback of the
\* parent then settles the parent the same way
RECURSIVE Settle(_, _, _)
Settle(calls, i, how) ==
  IF calls[i].settled # "pending" THEN calls
  ELSE LET c == [calls EXCEPT ![i].settled = how]
       IN  IF calls[i].parent = 0 THEN c ELSE Settle(c, calls[i].parent, how)

\* 72-92 and 94-114: the body the error and the timeout handler share
OnFailure(calls, i, event) ==
  IF calls[i].retries > 0
  THEN [calls EXCEPT ![i].timers = @ + 1]
  ELSE Settle(calls, i, "rejected")

InitRequest ==
  /\ InitSys
  /\ \E r \in 0..MaxBudget :
       fn = [op |-> "request", budget |-> r, sent |-> 1,
             calls |-> <<NewCall(r, 0)>>]

\* 55-69: the response ended; resolve(json), or reject on a status outside
\* 2xx or a body that is not JSON
RequestRespond(i, how) ==
  /\ fn.op = "request"
  /\ fn.calls[i].req = "inflight"
  /\ fn' = [fn EXCEPT !.calls = Settle([@ EXCEPT ![i].req = "done"], i, how)]
  /\ UNCHANGED sys

\* 72: 'error' of a request that failed on the network
RequestError(i) ==
  /\ fn.op = "request"
  /\ fn.calls[i].req = "inflight"
  /\ fn' = [fn EXCEPT !.calls = [OnFailure(@, i, "error") EXCEPT ![i].req = "done"]]
  /\ UNCHANGED sys

\* 94-95: 'timeout' before a response; req.destroy()
RequestTimeout(i) ==
  /\ fn.op = "request"
  /\ fn.calls[i].req = "inflight"
  /\ fn' = [fn EXCEPT !.calls = [OnFailure(@, i, "timeout") EXCEPT ![i].req = "destroyed"]]
  /\ UNCHANGED sys

\* 72: 'error' of the request the timeout handler destroyed
RequestDestroyed(i) ==
  /\ fn.op = "request"
  /\ fn.calls[i].req = "destroyed"
  /\ fn' = [fn EXCEPT !.calls = [OnFailure(@, i, "error") EXCEPT ![i].req = "done"]]
  /\ UNCHANGED sys

\* 74-86 and 97-109: the timer's callback calls makeRequest(retries - 1)
RetryTimer(i) ==
  /\ fn.op = "request"
  /\ fn.calls[i].timers > 0
  /\ fn' = [fn EXCEPT !.calls = Append([@ EXCEPT ![i].timers = @ - 1],
                                       NewCall(fn.calls[i].retries - 1, i)),
                      !.sent = @ + 1]
  /\ UNCHANGED sys

NextRequest ==
  \/ \E i \in 1..Len(fn.calls), how \in {"resolved", "rejected"} : RequestRespond(i, how)
  \/ \E i \in 1..Len(fn.calls) : RequestError(i)
  \/ \E i \in 1..Len(fn.calls) : RequestTimeout(i)
  \/ \E i \in 1..Len(fn.calls) : RequestDestroyed(i)
  \/ \E i \in 1..Len(fn.calls) : RetryTimer(i)

SpecRequest == InitRequest /\ [][NextRequest]_vars

\* C20: a makeRequest call with retry budget r sends at most r + 1 HTTP
\* requests, also when a timeout's req.destroy() raises the error event,
\* and once nothing is in flight its promise is settled.
C20_AtMostBudgetPlusOneRequests ==
  fn.op = "request" =>
    /\ fn.sent <= fn.budget + 1
    /\ (\A i \in 1..Len(fn.calls) : fn.calls[i].req = "done" /\ fn.calls[i].timers = 0)
         => fn.calls[1].settled # "pending"

(***************************************************************************)
(* One queued job from its enqueueing to its end (vision-queue.js 37-139). *)
(* The photos are stored and their entries wait in the queue; only the     *)
(* queue and the processor act.  Fairness: a Bull worker polls the queue   *)
(* while it has a free slot, a delayed entry is promoted when its backoff  *)
(* delay has passed, and every await of the processor settles (the store   *)
(* and the HTTP client give up after their timeouts), after which the      *)
(* event loop runs the continuation.                                       *)
(***************************************************************************)
InitRetry ==
  /\ \E t \in {<<>>, <<ta>>} :
       /\ photos = [p \in PhotoIds |-> NewPhoto(t)]
       /\ index = IncAll(<<>>, UploadIndexNames(t))
  /\ nextId = NumPhotos + 1
  /\ photoCount = NumPhotos
  /\ job = [p \in PhotoIds |-> [NoJob EXCEPT !.state = "waiting"]]
  /\ w = [p \in PhotoIds |-> Idle]
  /\ tmp = [p \in PhotoIds |-> FALSE]
  /\ fn = NoFn

\* what the queue and the processor do for the entry of photo p
RetryStep(p) ==
  \/ WorkerStart(p)
  \/ WriteProcessing(p)
  \/ ImageSource(p)
  \/ CallVision(p)
  \/ WriteTags(p)
  \/ UpdateTagUsage(p)
  \/ WriteNoTags(p)
  \/ Return(p)
  \/ Catch(p)
  \/ Rethrow(p)
  \/ Promote(p)

NextRetry == \E p \in PhotoIds : RetryStep(p)

SpecRetry ==
  InitRetry /\ [][NextRetry]_vars /\ \A p \in PhotoIds : WF_vars(RetryStep(p))

\* attempts started for the entry of p
Attempts(p) == job[p].attemptsMade + (IF job[p].state = "active" THEN 1 ELSE 0)

\* the catch of p's attempt ends; the recorded status and error are checked
\* against the error caught
CatchEnds(p) == w[p].pc = "catch" /\ w'[p].pc # "catch"

\* the attempt of p ends by the throw: the queue counts it, and schedules
\* the next attempt while attempts are left
Rethrown(p) ==
  w[p].pc = "throw" /\ w'[p].pc # "throw" =>
    /\ job'[p].attemptsMade = job[p].attemptsMade + 1
    /\ job'[p].state =
         IF job'[p].attemptsMade < QUEUE_RETRY_ATTEMPTS THEN "delayed" ELSE "failed"

\* every enqueued job reaches a terminal queue state
ReachesTerminal ==
  \A p \in PhotoIds : job[p].state = "waiting" ~> job[p].state \in Terminal

C22_ParserBoundsAndConfidence ==
  (fn.op = "generate" /\ fn.done /\ fn.result.success) =>
    /\ Len(fn.result.tags) <= fn.options.maxTags
    /\ \A i \in 1..Len(fn.result.tags) :
         fn.result.tags[i].confidence >= fn.options.minConfidence

(***************************************************************************)
(* Text Tagging Service (text-tagging.js).  A response is the text the     *)
(* LLM returned, by the path of parseTagsFromResponse that reads it:       *)
(* "strings" a JSON array of strings, "objects" a JSON array of objects    *)
(* with a tag field, "quoted" prose with quoted strings, "words" prose     *)
(* without; items are the strings, tag fields, quoted strings or words.    *)
(***************************************************************************)
\* longest list of items in a response
MaxTextItems == 2
\* confidence: 0.85, in hundredths
TextTaggingConfidence == 85

TextTokens == {<<"a", "b">>, <<"A", "b">>, <<"A", "b", "c">>, <<" ", "a", "b", "c">>}

TextResponses ==
  {[path |-> p, items |-> s] :
     p \in {"strings", "objects", "quoted", "words"},
     s \in UNION {[1..n -> TextTokens] : n \in 0..MaxTextItems}}

\* [...new Set(words)]
RECURSIVE Unique(_, _)
Unique(s, acc) ==
  IF s = <<>> THEN acc
  ELSE Unique(Tail(s), IF Head(s) \in Range(acc) THEN acc ELSE Append(acc, Head(s)))

\* 82-120
ParseTextTags(response, maxTags) ==
  LET lower(s) == [i \in 1..Len(s) |-> ToLowerCase(Trim(s[i]))] IN
  CASE response.path = "strings" -> lower(Slice(response.items, maxTags))
    [] response.path = "objects" -> Slice(response.items, maxTags)
    [] response.path = "quoted" -> lower(Slice(response.items, maxTags))
    [] OTHER -> Slice(Unique(SelectSeq(response.items, LAMBDA x : Len(x) > 2), <<>>),
                      maxTags)

\* 191-210: filter on the length, attach the confidence
FormatTextTags(tagNames) ==
  LET kept == SelectSeq(tagNames, LAMBDA t : Len(t) > 1 /\ Len(t) <= 50)
  IN  [i \in 1..Len(kept) |-> Item(kept[i], TextTaggingConfidence)]

\* the request is still to be made; outcome: the response, or the error the
\* request ends with
InitText ==
  /\ InitSys
  /\ \E o \in TextResponses
               \cup {[path |-> e, items |-> <<>>] :
                       e \in {"timeout", "network error", "HTTP 500"}},
        maxTags \in {1, 10} :
       fn = [op |-> "text", outcome |-> o, maxTags |-> maxTags, sent |-> 0,
             done |-> FALSE, tags |-> <<>>]

\* 129-215: one makeRequest (27-77), which sends one HTTP request and rejects
\* on its error or timeout event; the catch returns []
GenerateTagsFromText ==
  /\ fn.op = "text"
  /\ ~fn.done
  /\ fn' = [fn EXCEPT !.sent = @ + 1, !.done = TRUE,
                      !.tags = IF fn.outcome \in TextResponses
                               THEN FormatTextTags(ParseTextTags(fn.outcome, fn.maxTags))
                               ELSE <<>>]
  /\ UNCHANGED sys

NextText == GenerateTagsFromText

SpecText == InitText /\ [][NextText]_vars

\* C21: a request that met a network error or a timeout was sent again at
\* least once before generateTagsFromText gave up and returned no tags.
C21_TextRequestRetried ==
  (fn.op = "text" /\ fn.done /\ fn.outcome.path \in {"timeout", "network error"}) =>
    /\ fn.sent > 1
    /\ fn.tags = <<>>

\* C23: every tag generateTagsFromText returns is lowercase and has the
\* confidence 0.85, whichever parsing path produced it.
C23_TextTagsLowercase ==
  (fn.op = "text" /\ fn.done) =>
    \A i \in 1..Len(fn.tags) :
      /\ fn.tags[i].tag = ToLowerCase(fn.tags[i].tag)
      /\ fn.tags[i].confidence = TextTaggingConfidence

\* C24: a failure while removing the stored image never prevents the photo
\* deletion: the owner's delete request of an existing photo, with the store
\* working, removes the record, decrements photoCount and answers success.
C24_ImageFailureDoesNotBlockDelete ==
  (fn.op = "delete" /\ fn.route = "owner" /\ fn.status \notin {403, 404}
     /\ fn.error # "store") =>
    /\ fn.status = 200
    /\ ~fn.exists
    /\ fn.photoCount = 0

(***************************************************************************)
(* A photo deleted while its job is queued or running: the queue and the   *)
(* processor of SpecRetry, and the removal of the Photo Record by either   *)
(* delete route (Photo.findByIdAndDelete, photos.js 413, admin.js 323).    *)
(* A processor whose image is gone meets a failed read or download.        *)
(***************************************************************************)
DeleteRecord(p) ==
  /\ photos[p].exists
  /\ photos' = [photos EXCEPT ![p] = NoPhoto]
  /\ photoCount' = photoCount - 1
  /\ UNCHANGED <<fn, nextId, index, job, w, tmp>>

NextRace ==
  \/ \E p \in PhotoIds : RetryStep(p)
  \/ \E p \in PhotoIds : DeleteRecord(p)

SpecRace ==
  InitRetry /\ [][NextRace]_vars /\ \A p \in PhotoIds : WF_vars(RetryStep(p))

\* C25: when a Photo Record is deleted while its job is in flight, no write
\* of the job brings the record back, the attempt goes on to its return or
\* its throw, and the job reaches a terminal queue state.
C25_DeletedRecordStaysDeleted ==
  /\ [][\A p \in PhotoIds : ~photos[p].exists => photos'[p] = NoPhoto]_vars
  /\ \A p \in PhotoIds :
       (~photos[p].exists /\ job[p].state \notin Terminal)
         ~> (job[p].state \in Terminal /\ w[p].pc = "idle" /\ ~photos[p].exists)

\* the attempt wrote processing and completed for a record that is gone
C25_Witness ==
  \E p \in PhotoIds :
    /\ ~photos[p].exists
    /\ job[p].state = "active"
    /\ w[p].pc = "cleanup"
    /\ w[p].wrote = <<"processing", "completed">>

(***************************************************************************)
(* Deleting a Tag Usage Record: DELETE /api/admin/tags/:tagId (admin.js    *)
(* 398-440, behind protect and admin) and DELETE /api/tags/:tagId          *)
(* (albums.js 753-795, behind protect).  fn holds the names that have a    *)
(* Tag record, the tag names each post and each photo carries, and what    *)
(* the last request did.                                                   *)
(***************************************************************************)
\* posts, and photos, in the store
NumTagged == 2

TagDeleteNames == {"a", "b"}

InitTagDelete ==
  /\ InitSys
  /\ \E names \in SUBSET TagDeleteNames,
        posts \in [1..NumTagged -> SUBSET TagDeleteNames],
        pics \in [1..NumTagged -> SUBSET TagDeleteNames] :
       fn = [op |-> "tagdelete", names |-> names, posts |-> posts, pics |-> pics,
             route |-> "none", role |-> "none", name |-> "none", status |-> 0]

\* the handler both routes share: 404 without the record; else $pull of the
\* name from every post's tags, then Tag.findByIdAndDelete
RemoveTag(s, name) ==
  IF name \notin s.names THEN [s EXCEPT !.status = 404]
  ELSE [s EXCEPT !.posts = [i \in DOMAIN @ |-> @[i] \ {name}],
                 !.names = @ \ {name},
                 !.status = 200]

\* admin.js 398-440: the admin middleware answers 403 to any other role
AdminDeleteTag(role, name) ==
  /\ fn.op = "tagdelete"
  /\ LET s == [fn EXCEPT !.route = "admin", !.role = role, !.name = name] IN
     fn' = IF role # "admin" THEN [s EXCEPT !.status = 403] ELSE RemoveTag(s, name)
  /\ UNCHANGED sys

\* albums.js 753-795: any authenticated user
DeleteTag(role, name) ==
  /\ fn.op = "tagdelete"
  /\ fn' = RemoveTag([fn EXCEPT !.route = "tags", !.role = role, !.name = name], name)
  /\ UNCHANGED sys

NextTagDelete ==
  \/ \E role \in {"admin", "user"}, name \in TagDeleteNames : AdminDeleteTag(role, name)
  \/ \E role \in {"admin", "user"}, name \in TagDeleteNames : DeleteTag(role, name)

SpecTagDelete == InitTagDelete /\ [][NextTagDelete]_vars

\* C26: a Tag Usage Record is deleted only by an administrator, and once a
\* tag delete request has completed no post and no photo carries the tag.
C26_TagDeletedByAdminFromAllContent ==
  (fn.op = "tagdelete" /\ fn.status = 200) =>
    /\ fn.role = "admin"
    /\ \A i \in 1..NumTagged : fn.name \notin fn.posts[i] /\ fn.name \notin fn.pics[i]

(***************************************************************************)
(* POST /api/photos/upload with its response (photos.js 82-202).  The      *)
(* handler is one try block: whatever throws, thrown after whichever of    *)
(* its writes, is answered 500 by the catch.  fn holds the tag lists of    *)
(* the Photo Records created, the uploader's stats.photoCount, the Tag     *)
(* Usage Index, those two as they were before the last request, whether    *)
(* that request created a record, and the status it answered.              *)
(***************************************************************************)
\* upload requests in one behaviour
MaxUploads == 2

InitUpload ==
  /\ InitSys
  /\ fn = [op |-> "upload", requests |-> 0, records |-> <<>>, photoCount |-> 0,
           index |-> <<>>, prevCount |-> 0, prevIndex |-> <<>>,
           created |-> FALSE, status |-> 0]

\* throws: the first statement that throws.  "response" is line 183, which
\* reads autoTaggingEnabled, a name nothing declares: a ReferenceError on
\* every request that gets that far.  A handler that meets no other error
\* meets this one.
UploadRequest ==
  /\ fn.op = "upload"
  /\ fn.requests < MaxUploads
  /\ \E input \in UploadTagInputs, url \in {"local", "http"}, pt \in ProviderTagNames,
        throws \in {"no file", "media", "create", "count", "tags", "response"} :
       LET allTags == AllTags(input, pt, url)
           names == UploadIndexNames(allTags)
           s == [fn EXCEPT !.requests = @ + 1, !.prevCount = fn.photoCount,
                           !.prevIndex = fn.index, !.created = FALSE]
           made == [s EXCEPT !.records = Append(@, allTags), !.created = TRUE]
           counted == [made EXCEPT !.photoCount = @ + 1]
       IN
       /\ url = "local" => pt = <<>>
       /\ CASE throws = "no file" -> fn' = [s EXCEPT !.status = 400]
            [] throws \in {"media", "create"} -> fn' = [s EXCEPT !.status = 500]
            [] throws = "count" -> fn' = [made EXCEPT !.status = 500]
            [] throws = "tags" ->
                 \E applied \in SUBSET names :
                   /\ applied # names
                   /\ fn' = [counted EXCEPT !.index = IncAll(@, applied), !.status = 500]
            [] OTHER ->
                 fn' = [counted EXCEPT !.index = IncAll(@, names), !.status = 500]
  /\ UNCHANGED sys

NextUpload == UploadRequest

SpecUpload == InitUpload /\ [][NextUpload]_vars

\* C27: an upload answered with an error status created no Photo Record and
\* left photoCount and the Tag Usage Index as they were, and an upload that
\* created a Photo Record is answered 201.
C27_UploadAllOrNothing ==
  (fn.op = "upload" /\ fn.status # 0) =>
    /\ fn.status >= 400 =>
         (~fn.created /\ fn.photoCount = fn.prevCount /\ fn.index = fn.prevIndex)
    /\ fn.created => fn.status = 201

(***************************************************************************)
(* Album membership (albums.js 270-457, photos.js 375-434), requests of    *)
(* the one user who owns the albums and the photos, one after another.     *)
(* fn holds, per album, whether it exists and the ids in its photos list,  *)
(* and per photo whether it exists and its album reference (0: null).      *)
(***************************************************************************)
NumAlbums == 2
NumAlbumPhotos == 2

InitAlbums ==
  /\ InitSys
  /\ fn = [op |-> "albums",
           albums |-> [a \in 1..NumAlbums |-> [exists |-> TRUE, photos |-> {}]],
           pics |-> [p \in 1..NumAlbumPhotos |-> [exists |-> TRUE, album |-> 0]]]

\* albums.js 322-401: 404 without the album or the photo; the id is pushed
\* unless the list of this album includes it, and photo.album is set
AddPhotoToAlbum(a, p) ==
  /\ fn.op = "albums"
  /\ fn.albums[a].exists
  /\ fn.pics[p].exists
  /\ p \notin fn.albums[a].photos
  /\ fn' = [fn EXCEPT !.albums[a].photos = @ \cup {p}, !.pics[p].album = a]
  /\ UNCHANGED sys

\* albums.js 406-457: the id is filtered out of this album's list, and the
\* photo's reference is set to null whichever album it named
RemovePhotoFromAlbum(a, p) ==
  /\ fn.op = "albums"
  /\ fn.albums[a].exists
  /\ fn' = [fn EXCEPT !.albums[a].photos = @ \ {p},
                      !.pics[p].album = IF fn.pics[p].exists THEN 0 ELSE @]
  /\ UNCHANGED sys

\* albums.js 270-317: album: null on the photos of its list, then the album
\* is deleted
DeleteAlbum(a) ==
  /\ fn.op = "albums"
  /\ fn.albums[a].exists
  /\ fn' = [fn EXCEPT !.pics = [p \in DOMAIN @ |->
                                  IF p \in fn.albums[a].photos /\ @[p].exists
                                  THEN [@[p] EXCEPT !.album = 0] ELSE @[p]],
                      !.albums[a] = [exists |-> FALSE, photos |-> {}]]
  /\ UNCHANGED sys

\* photos.js 375-434: the Photo Record is deleted; no album is read or written
DeleteAlbumPhoto(p) ==
  /\ fn.op = "albums"
  /\ fn.pics[p].exists
  /\ fn' = [fn EXCEPT !.pics[p] = [exists |-> FALSE, album |-> 0]]
  /\ UNCHANGED sys

NextAlbums ==
  \/ \E a \in 1..NumAlbums, p \in 1..NumAlbumPhotos : AddPhotoToAlbum(a, p)
  \/ \E a \in 1..NumAlbums, p \in 1..NumAlbumPhotos : RemovePhotoFromAlbum(a, p)
  \/ \E a \in 1..NumAlbums : DeleteAlbum(a)
  \/ \E p \in 1..NumAlbumPhotos : DeleteAlbumPhoto(p)

SpecAlbums == InitAlbums /\ [][NextAlbums]_vars

\* C28: after any sequence of the four requests a photo has album = A
\* exactly when its id is in A.photos, no id is in the lists of two albums,
\* and every id in a list is of an existing Photo Record.
C28_AlbumMembershipConsistent ==
  fn.op = "albums" =>
    \A p \in 1..NumAlbumPhotos :
      /\ \A a \in 1..NumAlbums :
           (fn.pics[p].exists /\ fn.pics[p].album = a)
             <=> (fn.albums[a].exists /\ p \in fn.albums[a].photos)
      /\ Cardinality({a \in 1..NumAlbums : p \in fn.albums[a].photos}) <= 1

(***************************************************************************)
(* The unread count of one user and its cache (part_001 60-220, part_004   *)
(* 40-72).  fn holds the number of unread notifications in the database,   *)
(* the cached count (-1: no entry), the GET /count requests in flight with *)
(* the count each has read, and the number of mutations that have written  *)
(* the database and not yet deleted the cache entry.                       *)
(***************************************************************************)
\* cap of the unread notifications
MaxUnread == 2
\* GET /count requests in flight at once
NumCountRequests == 2
\* mutations in flight at once
MaxMutations == 1

InitNotify ==
  /\ InitSys
  /\ fn = [op |-> "notify", unread |-> 0, cached |-> -1, pending |-> 0,
           get |-> [r \in 1..NumCountRequests |-> [pc |-> "idle", count |-> 0]]]

\* 65-68: cache.get; a hit is the response
CountGet(r) ==
  /\ fn.op = "notify"
  /\ fn.get[r].pc = "idle"
  /\ fn.cached = -1
  /\ fn' = [fn EXCEPT !.get[r].pc = "miss"]
  /\ UNCHANGED sys

\* 70-73: Notification.countDocuments
CountRead(r) ==
  /\ fn.op = "notify"
  /\ fn.get[r].pc = "miss"
  /\ fn' = [fn EXCEPT !.get[r] = [pc |-> "counted", count |-> fn.unread]]
  /\ UNCHANGED sys

\* 81-83: cache.set of the count read, for 60 seconds
CountSet(r) ==
  /\ fn.op = "notify"
  /\ fn.get[r].pc = "counted"
  /\ fn' = [fn EXCEPT !.cached = fn.get[r].count,
                      !.get[r] = [pc |-> "idle", count |-> 0]]
  /\ UNCHANGED sys

\* the database write of createNotification (210), mark read (116-117),
\* mark all read (144-147) or delete (173-176): the unread count after it
Mutate(unread) ==
  /\ fn.op = "notify"
  /\ fn.pending < MaxMutations
  /\ unread \in {fn.unread + 1, fn.unread - 1, 0, fn.unread} \cap (0..MaxUnread)
  /\ fn' = [fn EXCEPT !.unread = unread, !.pending = @ + 1]
  /\ UNCHANGED sys

\* 120, 150, 189, 213: cache.del, which ends the mutation
Invalidate ==
  /\ fn.op = "notify"
  /\ fn.pending > 0
  /\ fn' = [fn EXCEPT !.cached = -1, !.pending = @ - 1]
  /\ UNCHANGED sys

\* the entry's 60 seconds have passed
Expire ==
  /\ fn.op = "notify"
  /\ fn.cached # -1
  /\ fn' = [fn EXCEPT !.cached = -1]
  /\ UNCHANGED sys

NextNotify ==
  \/ \E r \in 1..NumCountRequests : CountGet(r)
  \/ \E r \in 1..NumCountRequests : CountRead(r)
  \/ \E r \in 1..NumCountRequests : CountSet(r)
  \/ \E unread \in 0..MaxUnread : Mutate(unread)
  \/ Invalidate
  \/ Expire

SpecNotify == InitNotify /\ [][NextNotify]_vars

\* C29: once every request in flight has finished, the cached unread count
\* is absent or equal to the number of unread notifications in the database.
C29_CachedCountFresh ==
  (fn.op = "notify" /\ fn.pending = 0
     /\ \A r \in 1..NumCountRequests : fn.get[r].pc = "idle") =>
    fn.cached \in {-1, fn.unread}

(***************************************************************************)
(* Passwords (User.js 94-106, create-admin script part_006 7-53, register  *)
(* part_002 37-62).  A stored password is the plaintext it came from and   *)
(* the number of times bcrypt.hash was applied on the way (0: plaintext);  *)
(* bcrypt.compare matches a plaintext against one application only.  User  *)
(* 1 is the admin account, user 2 a member.                                *)
(***************************************************************************)
\* cap of the applications of bcrypt.hash to one value
MaxRounds == 3

Passwords == {"p", "q", "r"}

\* bcrypt.hash(value, salt)
BcryptHash(v) == [v EXCEPT !.rounds = @ + 1]

\* User.js 103-105: bcrypt.compare(enteredPassword, this.password)
MatchPassword(entered, v) == v.rounds = 1 /\ v.plain = entered

\* User.js 94-100.  On an unmodified password the hook calls next() and,
\* having no return, goes on to hash this.password all the same, after its
\* awaits: whether the save that next() let through writes the value from
\* before or after that assignment is a matter of timing (late).
PreSave(v, modified, late) ==
  IF modified \/ late THEN BcryptHash(v) ELSE v

InitPassword ==
  /\ InitSys
  /\ fn = [op |-> "password",
           users |-> [u \in 1..2 |-> [exists |-> FALSE, plain |-> "", rounds |-> 0]],
           last |-> "none"]

\* part_002 37-62: User.create({..., password})
Register(u, p) ==
  /\ fn.op = "password"
  /\ ~fn.users[u].exists
  /\ fn' = [fn EXCEPT !.users[u] = [exists |-> TRUE]
                                     @@ PreSave([plain |-> p, rounds |-> 0], TRUE, FALSE),
                      !.last = "register"]
  /\ UNCHANGED sys

\* part_006 7-53: an existing admin gets password = await bcrypt.hash(p, 10)
\* and is saved; without one, new User({..., password: p}) is saved
CreateAdmin(p) ==
  /\ fn.op = "password"
  /\ LET given == [plain |-> p, rounds |-> 0]
         assigned == IF fn.users[1].exists THEN BcryptHash(given) ELSE given
     IN  fn' = [fn EXCEPT !.users[1] = [exists |-> TRUE] @@ PreSave(assigned, TRUE, FALSE),
                          !.last = "createAdmin"]
  /\ UNCHANGED sys

\* a save of a user document whose password was not assigned
SaveUser(u) ==
  /\ fn.op = "password"
  /\ fn.users[u].exists
  /\ \E late \in BOOLEAN :
       /\ late => fn.users[u].rounds < MaxRounds
       /\ fn' = [fn EXCEPT !.users[u] = [exists |-> TRUE]
                              @@ PreSave([plain |-> @.plain, rounds |-> @.rounds],
                                         FALSE, late),
                           !.last = "save"]
  /\ UNCHANGED sys

NextPassword ==
  \/ \E u \in 1..2, p \in Passwords : Register(u, p)
  \/ \E p \in Passwords : CreateAdmin(p)
  \/ \E u \in 1..2 : SaveUser(u)

SpecPassword == InitPassword /\ [][NextPassword]_vars

\* C30: a password is hashed exactly once before it is stored: after the
\* create-admin script and after any save of a user document, matchPassword
\* of the password that was set is true on the stored value.
C30_PasswordHashedOnce ==
  fn.op = "password" =>
    \A u \in 1..2 :
      fn.users[u].exists => MatchPassword(fn.users[u].plain, fn.users[u])

====
